---- MODULE Spec2Model ----
(***************************************************************************)
(* A model of backend/main.py: the FastAPI service with the three          *)
(* endpoints /test-connection, /execute-sql and /download.                 *)
(*                                                                         *)
(* Text is modelled as a sequence of characters (one-character strings),   *)
(* so that str.lower(), the separator check of DataFrame.to_csv and the    *)
(* UTF-8 encoding are computed rather than assumed.  The driver (pyodbc),  *)
(* the dataframe library (pandas) and the database are the environment:    *)
(* they are modelled by what the calls in main.py observe of them.         *)
(***************************************************************************)
EXTENDS Integers, Sequences, FiniteSets, TLC

\* ------------------------------------------------------------------ bounds
\* the number of requests in flight at the same time
MaxReqs == 2
\* the longest QUERY text a client sends
MaxQueryLen == 2
\* the longest DELIMITER text a client sends
MaxDelimLen == 2

Reqs == 1..MaxReqs

\* ------------------------------------------------------------ text helpers
RECURSIVE Concat(_)
Concat(ss) == IF ss = <<>> THEN <<>> ELSE Head(ss) \o Concat(Tail(ss))

\* all character sequences over alphabet of length at most n
SeqsUpTo(alphabet, n) == UNION {[1..k -> alphabet] : k \in 0..n}

Range(s) == {s[i] : i \in DOMAIN s}

\* ------------------------------------------------------- the request model
\* DynamicRequest (main.py:23-30): four required strings, three defaulted.
RequiredFields == {"SERVER", "DATABASE", "USERNAME", "PASSWORD"}

Absent == <<"<absent>">>

DefaultQuery == <<>>
DefaultDelimiter == <<",">>
DefaultFormat == "csv"

\* pydantic's construction of the request object from a JSON body: a body
\* lacking a required field is rejected (FastAPI answers 422 before the
\* handler runs), a missing optional field takes its default.
BodyIsValid(body) == \A f \in RequiredFields : body[f] # "<absent>"

DynamicRequest(body) ==
    [SERVER    |-> body.SERVER,
     DATABASE  |-> body.DATABASE,
     USERNAME  |-> body.USERNAME,
     PASSWORD  |-> body.PASSWORD,
     QUERY     |-> IF body.QUERY = Absent THEN DefaultQuery ELSE body.QUERY,
     DELIMITER |-> IF body.DELIMITER = Absent THEN DefaultDelimiter ELSE body.DELIMITER,
     FORMAT    |-> IF body.FORMAT = "<absent>" THEN DefaultFormat ELSE body.FORMAT]

\* get_conn_str (main.py:36-44): the f-string, piece by piece.
get_conn_str(req) ==
    <<"DRIVER={ODBC Driver 17 for SQL Server};",
      "SERVER=", req.SERVER, ";",
      "DATABASE=", req.DATABASE, ";",
      "UID=", req.USERNAME, ";",
      "PWD=", req.PASSWORD, ";",
      "Connection Timeout=10;">>

\* str.lower() on the characters the model uses (main.py:69).
LowerChar(c) ==
    CASE c = "Q" -> "q"
      [] c = "X" -> "x"
      [] OTHER -> c

Lower(s) == [i \in DOMAIN s |-> LowerChar(s[i])]

\* ---------------------------------------------------------- the database
\* Result sets.  A frame is what pd.read_sql builds: the column labels in
\* result order and the rows, each a sequence of cells.  "NaN" is the
\* float NaN pandas puts for a NULL of a numeric column, "None" the None it
\* puts for a NULL of an object column; "SOH" is the control character
\* U+0001, "e'" the letter U+00E9.
NaN == "NaN"
None == "None"

FramePlain ==
    [columns |-> <<"a", "b">>,
     rows    |-> << <<"1", "x">>, <<NaN, None>>, <<"2", ";">> >>]

FrameUpper ==
    [columns |-> <<"a", "b">>,
     rows    |-> << <<"1", "X">>, <<"2", "e'">> >>]

FrameDup ==
    [columns |-> <<"a", "a">>,
     rows    |-> << <<"1", "2">>, <<NaN, ",">> >>]

FrameCtrl ==
    [columns |-> <<"a">>,
     rows    |-> << <<"SOH">> >>]

FrameOther ==
    [columns |-> <<"b">>,
     rows    |-> << <<"2">>, <<None>> >>]

\* The server's answer to a connection string: the two databases of the
\* one server, reachable with the one login.
Servers == {"srv"}
Databases == {"db1", "db2"}
Usernames == {"sa"}
Passwords == {"pw", "bad"}

DriverAccepts(connStr) ==
    \E d \in Databases :
        connStr = get_conn_str([SERVER |-> "srv", DATABASE |-> d,
                                USERNAME |-> "sa", PASSWORD |-> "pw"])

DatabaseOf(connStr) == connStr[6]

\* The server's answer to a statement.  Statement text is case-sensitive
\* where SQL is (string literals, quoted identifiers): "q" and "Q" are
\* different statements.  A statement the server does not know is an error.
ServerAnswer(database, sql) ==
    CASE database = "db1" /\ sql = <<"q">>      -> [ok |-> TRUE,  frame |-> FramePlain]
      [] database = "db1" /\ sql = <<"Q">>      -> [ok |-> TRUE,  frame |-> FrameUpper]
      [] database = "db1" /\ sql = <<"q", "q">> -> [ok |-> TRUE,  frame |-> FrameDup]
      [] database = "db1" /\ sql = <<"q", "Q">> -> [ok |-> TRUE,  frame |-> FrameCtrl]
      [] database = "db2" /\ sql = <<"q">>      -> [ok |-> TRUE,  frame |-> FrameOther]
      [] OTHER                                  -> [ok |-> FALSE, frame |-> FrameCtrl]

\* ------------------------------------------------- the dataframe library
IsMissing(cell) == cell \in {NaN, None}

\* df.replace({np.nan: None}) (main.py:72): every NaN cell becomes None.
replace_nan(frame) ==
    [columns |-> frame.columns,
     rows    |-> [i \in DOMAIN frame.rows |->
                    [j \in DOMAIN frame.rows[i] |->
                        IF frame.rows[i][j] = NaN THEN None ELSE frame.rows[i][j]]]]

\* The position a column label reads in a row: a dict holds one value per
\* key, and to_dict writes the columns in order, so the last column that
\* bears the label is the one kept.
LastIndexOf(columns, label) ==
    CHOOSE j \in DOMAIN columns :
        /\ columns[j] = label
        /\ \A k \in DOMAIN columns : columns[k] = label => k <= j

\* DataFrame.to_dict(orient="records") (main.py:72): one dict per row, in
\* row order, keyed by column label.
to_dict_records(frame) ==
    [i \in DOMAIN frame.rows |->
        [label \in Range(frame.columns) |->
            frame.rows[i][LastIndexOf(frame.columns, label)]]]

\* csv.writer's field text: a missing cell is written as the empty field
\* (na_rep = ""), any other cell as its character.
FieldText(cell) == IF IsMissing(cell) THEN <<>> ELSE <<cell>>

Quote == "\""
LineTerminator == "\n"

RECURSIVE DoubleQuotes(_)
DoubleQuotes(field) ==
    IF field = <<>> THEN <<>>
    ELSE (IF Head(field) = Quote THEN <<Quote, Quote>> ELSE <<Head(field)>>)
         \o DoubleQuotes(Tail(field))

\* QUOTE_MINIMAL: a field holding the separator, the quote character or a
\* line break is quoted; so is the only field of a row when it is empty.
QuoteField(field, sepChar, alone) ==
    IF \/ \E i \in DOMAIN field : field[i] \in {sepChar, Quote, LineTerminator, "\r"}
       \/ (alone /\ field = <<>>)
    THEN <<Quote>> \o DoubleQuotes(field) \o <<Quote>>
    ELSE field

RECURSIVE JoinFields(_, _)
JoinFields(fields, sep) ==
    IF fields = <<>> THEN <<>>
    ELSE IF Len(fields) = 1 THEN Head(fields)
    ELSE Head(fields) \o sep \o JoinFields(Tail(fields), sep)

CsvLine(cells, sep) ==
    JoinFields([j \in DOMAIN cells |->
                   QuoteField(FieldText(cells[j]), sep[1], Len(cells) = 1)], sep)
    \o <<LineTerminator>>

\* DataFrame.to_csv(index=False, sep=...) (main.py:98): the separator must
\* be a one-character string, anything else raises TypeError.
to_csv_raises(sep) == Len(sep) # 1

to_csv(frame, sep) ==
    CsvLine(frame.columns, sep)
    \o Concat([i \in DOMAIN frame.rows |-> CsvLine(frame.rows[i], sep)])

\* str.encode('utf-8') (main.py:99), character by character.
Utf8Char(c) ==
    CASE c = "1"  -> <<49>>
      [] c = "2"  -> <<50>>
      [] c = "a"  -> <<97>>
      [] c = "b"  -> <<98>>
      [] c = "x"  -> <<120>>
      [] c = "X"  -> <<88>>
      [] c = ","  -> <<44>>
      [] c = ";"  -> <<59>>
      [] c = "\"" -> <<34>>
      [] c = "\n" -> <<10>>
      [] c = "SOH" -> <<1>>
      [] c = "e'" -> <<195, 169>>

encode_utf8(text) == Concat([i \in DOMAIN text |-> Utf8Char(text[i])])

\* df.to_excel(writer, index=False, sheet_name='SQL_Results') inside
\* pd.ExcelWriter(buffer, engine='openpyxl') (main.py:92-93): openpyxl
\* refuses a control character in a cell (IllegalCharacterError).
to_excel_raises(frame) ==
    \E i \in DOMAIN frame.rows : \E j \in DOMAIN frame.rows[i] :
        frame.rows[i][j] = "SOH"

to_excel(frame) ==
    [sheet_name |-> "SQL_Results",
     header     |-> frame.columns,
     cells      |-> [i \in DOMAIN frame.rows |->
                        [j \in DOMAIN frame.rows[i] |-> FieldText(frame.rows[i][j])]]]

\* ---------------------------------------------------------- the requests
\* What a client sends: the endpoint and the JSON body.  A field the body
\* leaves out is marked absent.
Endpoints == {"test-connection", "execute-sql", "download"}

QueryChars == {"q", "Q"}
DelimChars == {",", ";"}
Formats == {"csv", "excel", "txt"}

Body(server, database, username, password, query, delimiter, format) ==
    [SERVER |-> server, DATABASE |-> database, USERNAME |-> username,
     PASSWORD |-> password, QUERY |-> query, DELIMITER |-> delimiter,
     FORMAT |-> format]

AllBodies ==
    {Body(s, d, u, p, q, dl, f) :
        s \in Servers, d \in Databases, u \in Usernames,
        p \in Passwords \cup {"<absent>"},
        q \in SeqsUpTo(QueryChars, MaxQueryLen) \cup {Absent},
        dl \in SeqsUpTo(DelimChars, MaxDelimLen) \cup {Absent},
        f \in Formats \cup {"<absent>"}}

AllInputs == {[op |-> e, body |-> b] : e \in Endpoints, b \in AllBodies}

\* The requests that run side by side: one for every path of every handler.
SomeInputs ==
    {[op |-> "test-connection", body |-> Body("srv", "db1", "sa", "pw", Absent, Absent, "<absent>")],
     [op |-> "test-connection", body |-> Body("srv", "db2", "sa", "bad", Absent, Absent, "<absent>")],
     [op |-> "execute-sql", body |-> Body("srv", "db1", "sa", "pw", <<"Q">>, Absent, "<absent>")],
     [op |-> "execute-sql", body |-> Body("srv", "db2", "sa", "pw", <<"q">>, Absent, "<absent>")],
     [op |-> "execute-sql", body |-> Body("srv", "db1", "sa", "pw", Absent, Absent, "<absent>")],
     [op |-> "execute-sql", body |-> Body("srv", "db1", "sa", "<absent>", <<"q">>, Absent, "<absent>")],
     [op |-> "download", body |-> Body("srv", "db1", "sa", "pw", <<"q">>, <<";">>, "csv")],
     [op |-> "download", body |-> Body("srv", "db1", "sa", "pw", <<"Q">>, <<>>, "txt")],
     [op |-> "download", body |-> Body("srv", "db2", "sa", "pw", <<"q">>, Absent, "excel")],
     [op |-> "download", body |-> Body("srv", "db1", "sa", "pw", <<"q", "Q">>, Absent, "excel")],
     [op |-> "download", body |-> Body("srv", "db1", "sa", "pw", <<"Q", "Q">>, Absent, "<absent>")]}

\* ------------------------------------------------------------- the state
VARIABLES
    req,      \* req[r]: the endpoint and body of request r
    pc,       \* pc[r]: where request r stands in its handler
    conn,     \* conn[r]: the handler's local conn, a handle into conns; 0: unset
    df,       \* df[r]: the handler's local df
    resp,     \* resp[r]: the response sent for request r
    trace,    \* trace[r]: the stages request r went through, in order
    conns     \* every connection object the driver ever created, by handle

vars == <<req, pc, conn, df, resp, trace, conns>>

NoFrame == [columns |-> <<>>, rows |-> <<>>]
NoResponse == [status |-> 0]

\* the request object the handler receives
Req(r) == DynamicRequest(req[r].body)

\* the connection objects request r opened
Owned(r) == {h \in DOMAIN conns : conns[h].owner = r}

\* ------------------------------------------------------------- responses
\* raise HTTPException(status_code=..., detail=...)
HTTPException(status_code, detail) == [status |-> status_code, detail |-> detail]

\* FastAPI's answer to a body that DynamicRequest rejects
ValidationError == HTTPException(422, <<"field required">>)

\* an exception that leaves the handler uncaught
InternalServerError == [status |-> 500, text |-> "Internal Server Error"]

\* a slip at main.py:54: the connection failure reported as a server error
connection_error_as_500(e) == HTTPException(500, <<e>>)

\* main.py:54
connection_error(e) == HTTPException(400, <<"Connection Error: ", e>>)

\* a slip at main.py:79: the handler of get_db_connection copied over
execute_error_as_400(e) == HTTPException(400, <<"Connection Error: ", e>>)

\* main.py:79
execute_error(e) == HTTPException(500, <<e>>)

\* main.py:111
export_error(e) == HTTPException(400, <<"Export Error: ", e>>)

\* main.py:61
test_connection_result == [status |-> 200, json |-> [status |-> "success", message |-> "connected"]]

\* main.py:75
execute_sql_result(clean_list) == [status |-> 200, json |-> [data |-> clean_list]]

\* a slip at main.py:100: every delimited export labelled text/csv
media_type_of_csv(format) ==
    IF format = "excel"
    THEN "application/vnd.openxmlformats-officedocument.spreadsheetml.sheet"
    ELSE "text/csv"

\* main.py:94, 100
media_type_of(format) ==
    IF format = "excel"
    THEN "application/vnd.openxmlformats-officedocument.spreadsheetml.sheet"
    ELSE IF format = "csv" THEN "text/csv" ELSE "text/plain"

\* main.py:95, 101
ext_of(format) == IF format = "excel" THEN "xlsx" ELSE format

\* main.py:104-108
StreamingResponse(content, media_type, ext) ==
    [status |-> 200,
     media_type |-> media_type,
     content_disposition |-> <<"attachment; filename=query_export.", ext>>,
     content |-> content]

\* --------------------------------------------------------------- the driver
\* a slip at main.py:48: an open connection kept by an earlier request is
\* handed out again instead of a new one
pyodbc_connect_shared(pool, connStr, r) ==
    IF \E h \in DOMAIN pool : pool[h].open
    THEN [pool |-> pool, handle |-> CHOOSE h \in DOMAIN pool : pool[h].open]
    ELSE [pool   |-> Append(pool, [owner |-> r, connStr |-> connStr, open |-> TRUE,
                                   converters |-> {}, closeCalls |-> 0,
                                   closedTwice |-> FALSE, statements |-> <<>>]),
          handle |-> Len(pool) + 1]

\* pyodbc.connect (main.py:48): a new connection object on every call.
pyodbc_connect(pool, connStr, r) ==
    [pool   |-> Append(pool, [owner |-> r, connStr |-> connStr, open |-> TRUE,
                              converters |-> {}, closeCalls |-> 0,
                              closedTwice |-> FALSE, statements |-> <<>>]),
     handle |-> Len(pool) + 1]

\* conn.add_output_converter for geometry (-151) and xml (-152), main.py:50-51
add_output_converters(c) == [c EXCEPT !.converters = @ \cup {-151, -152}]

\* conn.close(): closes an open connection; on a closed one pyodbc raises
\* ProgrammingError ("Attempt to use a closed connection.").
close_raises(c) == ~c.open

conn_close(c) ==
    [c EXCEPT !.open = FALSE,
              !.closeCalls = @ + 1,
              !.closedTwice = @ \/ ~c.open]

\* pd.read_sql(sql, conn) (main.py:69, 86): the statement goes to the
\* database the connection is logged in to.
read_sql(sql, c) == ServerAnswer(DatabaseOf(c.connStr), sql)

sent(c, sql) == [c EXCEPT !.statements = Append(@, sql)]

\* the statement each handler hands to pd.read_sql
execute_sql_statement(request) == Lower(request.QUERY)

download_statement(request) == request.QUERY

\* ------------------------------------------------------------ the handlers
Stage(r, name) == trace' = [trace EXCEPT ![r] = Append(@, name)]

Respond(r, response) ==
    /\ resp' = [resp EXCEPT ![r] = response]
    /\ pc' = [pc EXCEPT ![r] = "done"]

\* FastAPI builds the DynamicRequest from the body, then calls the handler.
Validate(r) ==
    /\ pc[r] = "received"
    /\ IF BodyIsValid(req[r].body)
       THEN /\ pc' = [pc EXCEPT ![r] = "connect"]
            /\ Stage(r, "validate")
            /\ UNCHANGED resp
       ELSE /\ Respond(r, ValidationError)
            /\ trace' = [trace EXCEPT ![r] = @ \o <<"validate", "respond">>]
    /\ UNCHANGED <<req, conn, df, conns>>

\* get_db_connection (main.py:46-54), the first statement of each handler
\* (main.py:59, 66, 84).
get_db_connection(r) ==
    /\ pc[r] = "connect"
    /\ IF DriverAccepts(get_conn_str(Req(r)))
       THEN LET got == pyodbc_connect(conns, get_conn_str(Req(r)), r)
            IN  /\ conns' = [got.pool EXCEPT ![got.handle] = add_output_converters(@)]
                /\ conn' = [conn EXCEPT ![r] = got.handle]
                /\ pc' = [pc EXCEPT ![r] = "connected"]
                /\ Stage(r, "connect")
                /\ UNCHANGED resp
       ELSE /\ Respond(r, connection_error("login failed"))
            /\ trace' = [trace EXCEPT ![r] = @ \o <<"connect", "respond">>]
            /\ UNCHANGED <<conn, conns>>
    /\ UNCHANGED <<req, df>>

\* a variant of main.py:59-61 that probes the connection with a statement
\* before closing it
test_connection_probe(r) ==
    /\ pc[r] = "connected"
    /\ req[r].op = "test-connection"
    /\ conns' = [conns EXCEPT ![conn[r]] = conn_close(sent(@, <<"q">>))]
    /\ trace' = [trace EXCEPT ![r] = @ \o <<"execute", "respond">>]
    /\ Respond(r, test_connection_result)
    /\ UNCHANGED <<req, conn, df>>

\* test_connection (main.py:58-61) after the connection is there
test_connection(r) ==
    /\ pc[r] = "connected"
    /\ req[r].op = "test-connection"
    /\ conns' = [conns EXCEPT ![conn[r]] = conn_close(@)]
    /\ trace' = [trace EXCEPT ![r] = Append(@, "respond")]
    /\ Respond(r, test_connection_result)
    /\ UNCHANGED <<req, conn, df>>

\* execute_sql (main.py:69): pd.read_sql; an exception goes to main.py:77-79
execute_sql_read(r) ==
    /\ pc[r] = "connected"
    /\ req[r].op = "execute-sql"
    /\ LET sql == execute_sql_statement(Req(r))
           answer == read_sql(sql, conns[conn[r]])
       IN  /\ conns' = [conns EXCEPT ![conn[r]] = sent(@, sql)]
           /\ IF answer.ok
              THEN /\ df' = [df EXCEPT ![r] = answer.frame]
                   /\ pc' = [pc EXCEPT ![r] = "convert"]
                   /\ Stage(r, "execute")
                   /\ UNCHANGED resp
              ELSE /\ trace' = [trace EXCEPT ![r] = @ \o <<"execute", "respond">>]
                   /\ Respond(r, execute_error("statement failed"))
                   /\ UNCHANGED df
    /\ UNCHANGED <<req, conn>>

\* execute_sql (main.py:72-75): NaN to None, the records, the "data" object
execute_sql_convert(r) ==
    /\ pc[r] = "convert"
    /\ req[r].op = "execute-sql"
    /\ LET clean_list == to_dict_records(replace_nan(df[r]))
       IN  Respond(r, execute_sql_result(clean_list))
    /\ trace' = [trace EXCEPT ![r] = @ \o <<"convert", "respond">>]
    /\ UNCHANGED <<req, conn, df, conns>>

\* download_file's handler of any exception (main.py:109-111): conn is a
\* pyodbc connection object, which is always truthy, so close() is called;
\* when that raises, its exception leaves the handler instead of the 400.
download_except(r, pool, e) ==
    /\ conns' = [pool EXCEPT ![conn[r]] = conn_close(@)]
    /\ IF close_raises(pool[conn[r]])
       THEN Respond(r, InternalServerError)
       ELSE Respond(r, export_error(e))

\* download_file (main.py:86-87): pd.read_sql, then conn.close()
download_read(r) ==
    /\ pc[r] = "connected"
    /\ req[r].op = "download"
    /\ LET sql == download_statement(Req(r))
           answer == read_sql(sql, conns[conn[r]])
           pool == [conns EXCEPT ![conn[r]] = sent(@, sql)]
       IN  IF answer.ok
           THEN /\ df' = [df EXCEPT ![r] = answer.frame]
                /\ conns' = [pool EXCEPT ![conn[r]] = conn_close(@)]
                /\ pc' = [pc EXCEPT ![r] = "export"]
                /\ Stage(r, "execute")
                /\ UNCHANGED resp
           ELSE /\ download_except(r, pool, "statement failed")
                /\ trace' = [trace EXCEPT ![r] = @ \o <<"execute", "respond">>]
                /\ UNCHANGED df
    /\ UNCHANGED <<req, conn>>

\* download_file (main.py:89-108): the workbook or the delimited text
download_export(r) ==
    /\ pc[r] = "export"
    /\ req[r].op = "download"
    /\ trace' = [trace EXCEPT ![r] = @ \o <<"convert", "respond">>]
    /\ LET request == Req(r)
       IN  IF request.FORMAT = "excel"
           THEN IF to_excel_raises(df[r])
                THEN download_except(r, conns, "IllegalCharacterError")
                ELSE /\ Respond(r, StreamingResponse(to_excel(df[r]),
                                      media_type_of(request.FORMAT), ext_of(request.FORMAT)))
                     /\ UNCHANGED conns
           ELSE IF to_csv_raises(request.DELIMITER)
                THEN download_except(r, conns, "\"delimiter\" must be a 1-character string")
                ELSE /\ Respond(r, StreamingResponse(
                                      encode_utf8(to_csv(df[r], request.DELIMITER)),
                                      media_type_of(request.FORMAT), ext_of(request.FORMAT)))
                     /\ UNCHANGED conns
    /\ UNCHANGED <<req, conn, df>>

\* execute_sql never calls conn.close() (main.py:66-79): its connection
\* stays open until the interpreter frees the connection object, which
\* pyodbc answers by disconnecting.  That happens at some point after the
\* handler has ended, with the response or later: an exception keeps the
\* handler's frame, and so conn, alive for as long as it is being handled.
conn_released(h) ==
    /\ pc[conns[h].owner] = "done"
    /\ conns[h].open
    /\ conns' = [conns EXCEPT ![h].open = FALSE]
    /\ UNCHANGED <<req, pc, conn, df, resp, trace>>

\* ------------------------------------------------------- the specifications
Start(requests, clients) ==
    /\ req = requests
    /\ pc = [r \in Reqs |-> IF r \in clients THEN "received" ELSE "unsent"]
    /\ conn = [r \in Reqs |-> 0]
    /\ df = [r \in Reqs |-> NoFrame]
    /\ resp = [r \in Reqs |-> NoResponse]
    /\ trace = [r \in Reqs |-> <<>>]
    /\ conns = <<>>

NoRequest == [op |-> "none"]

\* MaxReqs requests in flight together
Init == \E requests \in [Reqs -> SomeInputs] : Start(requests, Reqs)

\* one request, over every body the clients send
InitPipeline ==
    \E input \in AllInputs :
        Start([r \in Reqs |-> IF r = 1 THEN input ELSE NoRequest], {1})

Next ==
    \E r \in Reqs :
        \/ Validate(r)
        \/ get_db_connection(r)
        \/ test_connection(r)
        \/ execute_sql_read(r)
        \/ execute_sql_convert(r)
        \/ download_read(r)
        \/ download_export(r)
        \/ \E h \in Owned(r) : conn_released(h)

Spec == Init /\ [][Next]_vars

SpecPipeline == InitPipeline /\ [][Next]_vars

\* ------------------------------------------------------------ the claims
Done(r) == pc[r] = "done"

ConnectFails(r) == BodyIsValid(req[r].body) /\ ~DriverAccepts(get_conn_str(Req(r)))

\* C1: when a request has been answered, every connection it opened is
\* closed, whatever the endpoint and whatever the path through the handler.
C1_ClosedWhenAnswered ==
    \A r \in Reqs : Done(r) => \A h \in Owned(r) : ~conns[h].open

\* C2: when the connection cannot be established the request ends with a
\* 400 whose detail begins with "Connection Error:", no statement was sent
\* and the request owns no connection, open or closed.
C2_ConnectionError ==
    \A r \in Reqs :
        (Done(r) /\ ConnectFails(r)) =>
            /\ resp[r].status = 400
            /\ resp[r].detail[1] = "Connection Error: "
            /\ "execute" \notin Range(trace[r])
            /\ Owned(r) = {}
            /\ conn[r] = 0

C2_Witness ==
    \E r \in Reqs :
        /\ Done(r) /\ ConnectFails(r)
        /\ req[r].op = "download"
        /\ resp[r].status = 400

\* C3: every statement sent to the database is the request's QUERY,
\* character for character, from execute-sql as from download.
C3_RawQuery ==
    \A h \in DOMAIN conns :
        \A i \in DOMAIN conns[h].statements :
            conns[h].statements[i] = Req(conns[h].owner).QUERY

\* The response a request gets when it is the only one the service ever
\* sees, as a function of the request and the database contents.
AloneResponse(q) ==
    LET request == DynamicRequest(q.body)
        query == IF q.op = "execute-sql" THEN Lower(request.QUERY) ELSE request.QUERY
        answer == ServerAnswer(request.DATABASE, query)
    IN  IF ~BodyIsValid(q.body) THEN ValidationError
        ELSE IF ~(request.SERVER = "srv" /\ request.USERNAME = "sa" /\ request.PASSWORD = "pw")
        THEN connection_error("login failed")
        ELSE IF q.op = "test-connection" THEN test_connection_result
        ELSE IF q.op = "execute-sql"
        THEN IF answer.ok
             THEN execute_sql_result(to_dict_records(replace_nan(answer.frame)))
             ELSE execute_error("statement failed")
        ELSE IF ~answer.ok THEN export_error("statement failed")
        ELSE IF request.FORMAT = "excel" /\ ~to_excel_raises(answer.frame)
        THEN StreamingResponse(to_excel(answer.frame), media_type_of("excel"), "xlsx")
        ELSE IF request.FORMAT # "excel" /\ ~to_csv_raises(request.DELIMITER)
        THEN StreamingResponse(encode_utf8(to_csv(answer.frame, request.DELIMITER)),
                               media_type_of(request.FORMAT), request.FORMAT)
        ELSE InternalServerError

\* C4: under every interleaving each request works on the connection it
\* opened itself, logged in with its own SERVER/DATABASE/USERNAME/PASSWORD,
\* and is answered as it would be had it run alone.
C4_Stateless ==
    \A r \in Reqs :
        /\ conn[r] # 0 =>
              /\ conn[r] \in DOMAIN conns
              /\ conns[conn[r]].owner = r
              /\ conns[conn[r]].connStr = get_conn_str(Req(r))
        /\ \A h \in Owned(r) : h = conn[r]
        /\ Done(r) => resp[r] = AloneResponse(req[r])

\* two answered requests on different databases whose connections were
\* opened in the opposite order of their numbers
C4_Witness ==
    \E r, s \in Reqs :
        /\ r < s /\ Done(r) /\ Done(s)
        /\ conn[r] # 0 /\ conn[s] # 0 /\ conn[s] < conn[r]
        /\ Req(r).DATABASE # Req(s).DATABASE
        /\ resp[r].status = 200 /\ resp[s].status = 200
        /\ req[r].op = "execute-sql" /\ req[s].op = "download"

\* the single request of SpecPipeline is answered as AloneResponse says
AloneResponseIsTheSoloRun == Done(1) => resp[1] = AloneResponse(req[1])

StageRank(name) ==
    CASE name = "validate" -> 1
      [] name = "connect"  -> 2
      [] name = "execute"  -> 3
      [] name = "convert"  -> 4
      [] name = "respond"  -> 5

InOrder(t) == \A i, j \in DOMAIN t : i < j => StageRank(t[i]) < StageRank(t[j])

FullPipeline == <<"validate", "connect", "execute", "convert", "respond">>

\* C5 as stated: every successful request of every endpoint went through
\* validate, connect, execute, convert, respond, on one connection of its
\* own with one statement sent on it.
C5_OneQueryEach ==
    \A r \in Reqs :
        (Done(r) /\ resp[r].status = 200) =>
            /\ trace[r] = FullPipeline
            /\ Cardinality(Owned(r)) = 1
            /\ \A h \in Owned(r) : Len(conns[h].statements) = 1

\* C5 as amended: the stages come in the order validate, connect, execute,
\* convert, respond; a request opens at most one connection and sends at
\* most one statement, and none before its connection is there; a
\* successful execute-sql or download went through all five stages with
\* exactly one connection and one statement; a successful test-connection
\* went through validate, connect, respond with exactly one connection and
\* no statement.
C5_Order ==
    \A r \in Reqs :
        /\ InOrder(trace[r])
        /\ Cardinality(Owned(r)) <= 1
        /\ \A h \in Owned(r) : Len(conns[h].statements) <= 1
        /\ "execute" \in Range(trace[r]) =>
              /\ "connect" \in Range(trace[r])
              /\ conn[r] # 0
        /\ (Done(r) /\ resp[r].status = 200) =>
              /\ Cardinality(Owned(r)) = 1
              /\ IF req[r].op = "test-connection"
                 THEN /\ trace[r] = <<"validate", "connect", "respond">>
                      /\ \A h \in Owned(r) : conns[h].statements = <<>>
                 ELSE /\ trace[r] = FullPipeline
                      /\ \A h \in Owned(r) : Len(conns[h].statements) = 1

C5_Witness ==
    \E r \in Reqs :
        /\ Done(r) /\ resp[r].status = 200
        /\ req[r].op = "test-connection"
        /\ trace[r] = <<"validate", "connect", "respond">>
        /\ \E h \in Owned(r) : conns[h].statements = <<>> /\ ~conns[h].open

\* C6: a successful execute-sql answers an object whose only key is "data",
\* holding one record per result row in result order; the record gives,
\* for every column of the result, that column's cell, null (None) where
\* the cell is missing and the cell itself where it is not.
C6_Records ==
    \A r \in Reqs :
        (Done(r) /\ req[r].op = "execute-sql" /\ resp[r].status = 200) =>
            /\ DOMAIN resp[r].json = {"data"}
            /\ Len(resp[r].json.data) = Len(df[r].rows)
            /\ \A i \in DOMAIN df[r].rows : \A j \in DOMAIN df[r].columns :
                  resp[r].json.data[i][df[r].columns[j]] =
                      (IF IsMissing(df[r].rows[i][j]) THEN None ELSE df[r].rows[i][j])

\* The part of C6 that the code keeps: with pairwise different column
\* labels every record gives every column's cell, null where it is missing.
RecordsOfDistinctColumns ==
    \A r \in Reqs :
        (Done(r) /\ req[r].op = "execute-sql" /\ resp[r].status = 200
                 /\ Cardinality(Range(df[r].columns)) = Len(df[r].columns)) =>
            /\ DOMAIN resp[r].json = {"data"}
            /\ Len(resp[r].json.data) = Len(df[r].rows)
            /\ \A i \in DOMAIN df[r].rows : \A j \in DOMAIN df[r].columns :
                  resp[r].json.data[i][df[r].columns[j]] =
                      (IF IsMissing(df[r].rows[i][j]) THEN None ELSE df[r].rows[i][j])

\* the text the claim describes: the labels, then each row, the fields of a
\* line separated by the delimiter whatever its length
DelimitedLine(cells, sep) ==
    JoinFields([j \in DOMAIN cells |->
                   LET field == FieldText(cells[j])
                   IN  IF \/ \E i \in DOMAIN field :
                                field[i] \in Range(sep) \cup {Quote, LineTerminator, "\r"}
                          \/ (Len(cells) = 1 /\ field = <<>>)
                       THEN <<Quote>> \o DoubleQuotes(field) \o <<Quote>>
                       ELSE field], sep)
    \o <<LineTerminator>>

Delimited(frame, sep) ==
    DelimitedLine(frame.columns, sep)
    \o Concat([i \in DOMAIN frame.rows |-> DelimitedLine(frame.rows[i], sep)])

\* C7: a download whose FORMAT is not "excel" and whose query succeeded is
\* answered with the UTF-8 bytes of the header line and the rows, fields
\* separated by the request's DELIMITER, for every DELIMITER the request
\* model accepts, the empty and the longer ones included.
C7_AnyDelimiter ==
    \A r \in Reqs :
        (Done(r) /\ req[r].op = "download" /\ Req(r).FORMAT # "excel"
                 /\ "convert" \in Range(trace[r])) =>
            /\ resp[r].status = 200
            /\ resp[r].content = encode_utf8(Delimited(df[r], Req(r).DELIMITER))

\* The part of C7 that the code keeps: with a DELIMITER of one character
\* the export is the UTF-8 text with that character between the fields.
OneCharacterDelimiter ==
    \A r \in Reqs :
        (Done(r) /\ req[r].op = "download" /\ Req(r).FORMAT # "excel"
                 /\ "convert" \in Range(trace[r]) /\ Len(Req(r).DELIMITER) = 1) =>
            /\ resp[r].status = 200
            /\ resp[r].content = encode_utf8(Delimited(df[r], Req(r).DELIMITER))

XlsxType == "application/vnd.openxmlformats-officedocument.spreadsheetml.sheet"

\* C8: a successful download carries, for FORMAT "excel", the spreadsheet
\* media type, the file name query_export.xlsx and a workbook; for "csv",
\* text/csv; for any other FORMAT, text/plain; and for a FORMAT other
\* than "excel" the file name query_export.<FORMAT>.  With FORMAT "excel"
\* the export succeeds whatever the DELIMITER, as soon as the query
\* succeeded and the workbook can be written.
C8_MediaTypes ==
    \A r \in Reqs :
        (Done(r) /\ req[r].op = "download") =>
            /\ resp[r].status = 200 =>
                  /\ resp[r].content_disposition[1] = "attachment; filename=query_export."
                  /\ resp[r].media_type =
                        (IF Req(r).FORMAT = "excel" THEN XlsxType
                         ELSE IF Req(r).FORMAT = "csv" THEN "text/csv" ELSE "text/plain")
                  /\ resp[r].content_disposition[2] =
                        (IF Req(r).FORMAT = "excel" THEN "xlsx" ELSE Req(r).FORMAT)
                  /\ Req(r).FORMAT = "excel" => resp[r].content = to_excel(df[r])
            /\ (Req(r).FORMAT = "excel" /\ "convert" \in Range(trace[r])
                    /\ ~to_excel_raises(df[r])) => resp[r].status = 200

C8_Witness ==
    \E r \in Reqs :
        /\ Done(r) /\ req[r].op = "download" /\ resp[r].status = 200
        /\ Req(r).FORMAT = "excel"
        /\ Len(Req(r).DELIMITER) = 2
        /\ resp[r].media_type = XlsxType
        /\ resp[r].content_disposition[2] = "xlsx"

\* C9: a download that fails after its connection was established ends
\* with a 400 whose detail begins with "Export Error:", and its connection
\* was closed exactly once: close was never called on it again.
C9_ExportError ==
    \A r \in Reqs :
        (Done(r) /\ req[r].op = "download" /\ conn[r] # 0) =>
            /\ resp[r].status # 200 =>
                  /\ resp[r].status = 400
                  /\ resp[r].detail[1] = "Export Error: "
            /\ conns[conn[r]].closeCalls = 1
            /\ ~conns[conn[r]].closedTwice

====
